---- MODULE Spec2Model ----
(***************************************************************************)
(* Model of the queue-based InstantMeet signaling server                   *)
(* (src/unnamed/part_000): the room registry, the rooms, the per-session   *)
(* read task (handleWebSocket and the handlers it calls) and the           *)
(* per-session drain loop (writePump).                                     *)
(*                                                                         *)
(* A handler is split where another goroutine can observe or disturb it:   *)
(* at every unsynchronised write of a Client field, at every acquisition   *)
(* of a Room mutex, and at every channel send.  A section that runs under  *)
(* roomsMu contains no blocking statement and touches only data that is    *)
(* accessed under roomsMu, so it is one step.  A Room mutex is released in *)
(* the step of the last statement executed under it.                       *)
(***************************************************************************)
EXTENDS Integers, Sequences, FiniteSets, TLC

\* ---------------------------------------------------------------- bounds
MaxEvents == 4         \* events of the environment: frames read, peers gone
                       \* away, writes failed on an open connection
QueueCap == 2          \* capacity of Client.Send (256 in the source)

\* ---------------------------------------------------------- input domains
Clients == {1, 2, 3}   \* accepted connections
RoomIds == {"r1", "r2"}

\* What each peer sends.  The server does not enforce distinct ids: sessions
\* 1 and 3 put the same `from` in their join frames.
IdOf(c) == <<"a", "b", "a">>[c]
NameOf(c) == <<"u1", "u2", "u3">>[c]

\* roomId of the join frames of session c; "" is the missing roomId
JoinRooms(c) == <<{"r1", ""}, {"r1"}, {"r1", "r2"}>>[c]

\* type, to, data of the signaling frames of session c; "" is the missing
\* recipient
SigFrames(c) ==
    IF c = 1
    THEN { <<"offer", "b", "sdp1">>, <<"ice-candidate", "a", "sdp2">>,
           <<"answer", "", "sdp1">> }
    ELSE {}

Leavers == {1, 2}      \* the peers that send leave frames
Droppers == {2, 3}     \* the peers that go away while the connection is open
Flaky == {2}           \* the connections on which a write can fail

NoTask == 0            \* an unlocked sync.Mutex
NilRoom == 0           \* a nil *Room

\* ------------------------------------------------------------- variables
VARIABLES
    rooms,      \* var rooms map[string]*Room : room id -> Room object or NilRoom
    heap,       \* the Room objects ever allocated, in allocation order
    client,     \* Client.ID, Client.Username, Client.RoomID of every session
    Send,       \* Client.Send : the buffered channel's contents
    sendClosed, \* close(client.Send) has run
    conn,       \* Client.Conn : "open" or "closed"
    pump,       \* the session's writePump goroutine: "running" or "stopped"
    pc,         \* position of the session's read task
    loc,        \* local variables of the handler the read task is running
    nev,        \* number of events of the environment so far
    op,         \* history: the read task's current (or last) handler invocation
    out,        \* history: what that invocation enqueued, and on whose queue
    nsent,      \* history: nsent[s][r] envelopes enqueued by task s on r's queue
    lastw,      \* history: lastw[r][s] of them written to r's transport
    alone,      \* history: no other read task was in a handler when this one's
                \* handler began (a departure that emptied its room: when it
                \* returned), and none has entered one since
    departed,   \* history: removeClientFromRoom has been called
    left,       \* history: the session's last leave frame took it out of a
                \* room, and it has sent no join frame with a roomId since
    writing     \* the tasks inside Conn.WriteMessage of the session's
                \* connection (the direct-write server)

vars == <<rooms, heap, client, Send, sendClosed, conn, pump, pc, loc,
          nev, op, out, nsent, lastw, alone, departed, left, writing>>

\* -------------------------------------------------------------- messages
Message(type, from, to, roomId, username, data) ==
    [Type |-> type, From |-> from, To |-> to, RoomID |-> roomId,
     Username |-> username, Data |-> data]

NoMsg == Message("", "", "", "", "", "")

NoLoc == [msg |-> NoMsg, room |-> NilRoom, todo |-> {}, target |-> 0,
          clientCount |-> 0, disc |-> FALSE]

\* History record of a handler invocation by session c.
NewOp(kind, msg, st) ==
    [kind |-> kind, msg |-> msg, room |-> NilRoom, snap |-> {}, count |-> 0,
     created |-> FALSE, st |-> st]

NoOp == NewOp("none", NoMsg, "done")

\* mutant: the lookup never finds the room
LookupMiss(id) == NilRoom

\* rooms[id] of a Go map: the zero value (nil) for a missing key
Lookup(id) == IF id \in DOMAIN rooms THEN rooms[id] ELSE NilRoom

\* ------------------------------------------------------------------ Init
Init ==
    /\ rooms = [r \in RoomIds |-> NilRoom]
    /\ heap = <<>>
    /\ client = [c \in Clients |-> [ID |-> "", Username |-> "", RoomID |-> ""]]
    /\ Send = [c \in Clients |-> <<>>]
    /\ sendClosed = [c \in Clients |-> FALSE]
    /\ conn = [c \in Clients |-> "open"]
    /\ pump = [c \in Clients |-> "running"]
    /\ pc = [c \in Clients |-> "idle"]
    /\ loc = [c \in Clients |-> NoLoc]
    /\ nev = 0
    /\ op = [c \in Clients |-> NoOp]
    /\ out = [c \in Clients |-> <<>>]
    /\ nsent = [s \in Clients |-> [r \in Clients |-> 0]]
    /\ lastw = [r \in Clients |-> [s \in Clients |-> 0]]
    /\ alone = [c \in Clients |-> FALSE]
    /\ departed = FALSE
    /\ left = [c \in Clients |-> FALSE]
    /\ writing = [c \in Clients |-> {}]

\* ------------------------------------------------------------- read loop
\* conn.ReadMessage() returned a frame: the read task is between handlers,
\* the connection is open and the frame budget is not used up.
CanRead(c) ==
    /\ pc[c] = "idle"
    /\ conn[c] = "open"
    /\ nev < MaxEvents

\* No read task other than c is inside a handler.
OthersQuiet(c) == \A d \in Clients \ {c} : pc[d] \in {"idle", "done"}

\* History bookkeeping at the entry of a handler.
Begin(c, rec) ==
    /\ op' = [op EXCEPT ![c] = rec]
    /\ out' = [out EXCEPT ![c] = <<>>]
    /\ alone' = [d \in Clients |-> IF d = c THEN OthersQuiet(c) ELSE FALSE]

\* return of a handler to the read loop
Finish(c) == op' = [op EXCEPT ![c].st = "done"]

\* -------------------------------------------------------- channel sends
\* mutant: the read task writes the envelope to t's transport itself
EnqueueDirect(c, t, env) ==
    /\ conn[t] = "open"
    /\ lastw' = [lastw EXCEPT ![t][c] = nsent[c][t] + 1]
    /\ nsent' = [nsent EXCEPT ![c][t] = @ + 1]
    /\ out' = [out EXCEPT ![c] = Append(@, [to |-> t, env |-> env])]
    /\ UNCHANGED Send

\* `t.Send <- env` executed by read task c: proceeds when the buffer has
\* room and blocks (is not enabled) while it is full.  Nothing is written to
\* a transport.
Enqueue(c, t, env) ==
    /\ ~sendClosed[t]
    /\ Len(Send[t]) < QueueCap
    /\ Send' = [Send EXCEPT ![t] =
                  Append(@, [env |-> env, by |-> c, k |-> nsent[c][t] + 1])]
    /\ nsent' = [nsent EXCEPT ![c][t] = @ + 1]
    /\ out' = [out EXCEPT ![c] = Append(@, [to |-> t, env |-> env])]
    /\ UNCHANGED lastw

\* mutant: the panic is swallowed and the read loop goes on
PanicResume(c) ==
    /\ pc' = [pc EXCEPT ![c] = "idle"]
    /\ op' = [op EXCEPT ![c].st = "panic"]

\* A send on a closed channel panics the sending goroutine.  net/http
\* recovers the panic of a handler goroutine, so only this read task ends;
\* a mutex it locked without a deferred Unlock stays locked.
Panic(c) ==
    /\ pc' = [pc EXCEPT ![c] = "panicked"]
    /\ op' = [op EXCEPT ![c].st = "panic"]

\* ------------------------------------------------------------ handleJoin
\* case "join": client.ID, client.Username, the roomId check, client.RoomID
RecvJoin(c) ==
    /\ CanRead(c)
    /\ \E rid \in JoinRooms(c) :
         LET msg == Message("join", IdOf(c), "", rid, NameOf(c), "") IN
         /\ nev' = nev + 1
         /\ Begin(c, NewOp("join", msg, IF msg.RoomID = "" THEN "done" ELSE "run"))
         /\ left' = IF msg.RoomID = "" THEN left ELSE [left EXCEPT ![c] = FALSE]
         /\ IF msg.RoomID = ""
            THEN /\ client' = [client EXCEPT ![c].ID = msg.From,
                                             ![c].Username = msg.Username]
                 /\ UNCHANGED <<pc, loc>>
            ELSE /\ client' = [client EXCEPT ![c] =
                       [ID |-> msg.From, Username |-> msg.Username,
                        RoomID |-> msg.RoomID]]
                 /\ pc' = [pc EXCEPT ![c] = "jReg"]
                 /\ loc' = [loc EXCEPT ![c] = [NoLoc EXCEPT !.msg = msg]]
    /\ UNCHANGED writing
    /\ UNCHANGED <<rooms, heap, Send, sendClosed, conn, pump, nsent, lastw,
                   departed>>

NewRoom(rid) == [ID |-> rid, Clients |-> {}, mu |-> NoTask]

\* roomsMu.Lock(); room, exists := rooms[msg.RoomID]; if !exists { ... };
\* roomsMu.Unlock()
JoinGetOrCreate(c) ==
    /\ pc[c] = "jReg"
    /\ LET rid == loc[c].msg.RoomID IN
       IF Lookup(rid) # NilRoom
       THEN /\ loc' = [loc EXCEPT ![c].room = Lookup(rid)]
            /\ op' = [op EXCEPT ![c].room = Lookup(rid)]
            /\ UNCHANGED <<rooms, heap>>
       ELSE /\ heap' = Append(heap, NewRoom(rid))
            /\ rooms' = [rooms EXCEPT ![rid] = Len(heap) + 1]
            /\ loc' = [loc EXCEPT ![c].room = Len(heap) + 1]
            /\ op' = [op EXCEPT ![c].room = Len(heap) + 1, ![c].created = TRUE]
    /\ pc' = [pc EXCEPT ![c] = "jRoom"]
    /\ UNCHANGED <<left, writing>>
    /\ UNCHANGED <<client, Send, sendClosed, conn, pump, nev, out, nsent,
                   lastw, alone, departed>>

\* mutant: the loop does not skip the joining session
OthersWithSelf(r, c) == heap[r].Clients \cup {c}

\* the members the loop notifies: `if otherClient != client`
Others(r, c) == heap[r].Clients \ {c}

\* mutant: the joining session is not put into the room
AddedNot(r, c) == heap[r].Clients

\* room.Clients[client] = true
Added(r, c) == heap[r].Clients \cup {c}

\* room.mu.Lock(); room.Clients[client] = true; entry of the range loop
\* (with nobody else in the room the loop body never runs: room.mu.Unlock())
JoinLockRoom(c) ==
    /\ pc[c] = "jRoom"
    /\ LET r == loc[c].room
           others == Others(r, c) IN
       /\ heap[r].mu = NoTask
       /\ heap' = [heap EXCEPT ![r].Clients = Added(r, c),
                               ![r].mu = IF others = {} THEN NoTask ELSE c]
       /\ loc' = [loc EXCEPT ![c].todo = others]
       /\ op' = [op EXCEPT ![c].snap = heap[r].Clients \ {c}]
       /\ pc' = [pc EXCEPT ![c] = IF others = {} THEN "jEcho" ELSE "jNotify"]
    /\ UNCHANGED <<left, writing>>
    /\ UNCHANGED <<rooms, client, Send, sendClosed, conn, pump, nev, out,
                   nsent, lastw, alone, departed>>

UserJoined(c, msg) ==
    Message("user-joined", client[c].ID, "", msg.RoomID, client[c].Username, "")

\* one iteration of `for otherClient := range room.Clients` (map order is
\* unspecified); room.mu.Unlock() after the last one
JoinNotify(c) ==
    /\ pc[c] = "jNotify"
    /\ \E o \in loc[c].todo :
         \/ /\ Enqueue(c, o, UserJoined(c, loc[c].msg))
            /\ loc' = [loc EXCEPT ![c].todo = @ \ {o}]
            /\ IF loc[c].todo = {o}
               THEN /\ heap' = [heap EXCEPT ![loc[c].room].mu = NoTask]
                    /\ pc' = [pc EXCEPT ![c] = "jEcho"]
               ELSE UNCHANGED <<heap, pc>>
            /\ UNCHANGED op
         \/ /\ sendClosed[o]
            /\ Panic(c)
            /\ UNCHANGED <<heap, loc, Send, nsent, out, lastw>>
    /\ UNCHANGED <<left, writing>>
    /\ UNCHANGED <<rooms, client, sendClosed, conn, pump, nev, alone, departed>>

\* mutant: the confirmation carries no room id
JoinedBlank(c) == Message("joined", "", "", "", "", "")

\* response := Message{Type: "joined", RoomID: client.RoomID}
Joined(c) == Message("joined", "", "", client[c].RoomID, "", "")

\* client.Send <- response; return
JoinEcho(c) ==
    /\ pc[c] = "jEcho"
    /\ Enqueue(c, c, Joined(c))
    /\ Finish(c)
    /\ pc' = [pc EXCEPT ![c] = "idle"]
    /\ loc' = [loc EXCEPT ![c] = NoLoc]
    /\ UNCHANGED <<left, writing>>
    /\ UNCHANGED <<rooms, heap, client, sendClosed, conn, pump, nev, alone,
                   departed>>

\* ------------------------------------------------------- handleSignaling
\* the `from` a client puts in its signaling frames
InboundFrom == "b"

\* case "offer", "answer", "ice-candidate": the msg.To check, then
\* roomsMu.Lock(); room := rooms[client.RoomID]; roomsMu.Unlock(); nil check
RecvSignal(c) ==
    /\ CanRead(c)
    /\ \E f \in SigFrames(c) :
         LET msg == Message(f[1], InboundFrom, f[2], "", "", f[3])
             room == Lookup(client[c].RoomID) IN
         /\ nev' = nev + 1
         /\ IF msg.To = "" \/ room = NilRoom
            THEN /\ Begin(c, NewOp("signal", msg, "done"))
                 /\ UNCHANGED <<pc, loc>>
            ELSE /\ Begin(c, [NewOp("signal", msg, "run") EXCEPT !.room = room])
                 /\ pc' = [pc EXCEPT ![c] = "sRoom"]
                 /\ loc' = [loc EXCEPT ![c] = [NoLoc EXCEPT !.msg = msg, !.room = room]]
    /\ UNCHANGED <<left, writing>>
    /\ UNCHANGED <<rooms, heap, client, Send, sendClosed, conn, pump, nsent,
                   lastw, departed>>

\* mutant: the lookup loop stops at any member
MatchesAny(r, to) == heap[r].Clients

\* the members the lookup loop can stop at: `c.ID == msg.To`
Matches(r, to) == {m \in heap[r].Clients : client[m].ID = to}

\* room.mu.Lock(); defer room.mu.Unlock(); the lookup loop (map order is
\* unspecified, the first match wins); return when nobody matches
SigLockRoom(c) ==
    /\ pc[c] = "sRoom"
    /\ LET r == loc[c].room
           found == Matches(r, loc[c].msg.To) IN
       /\ heap[r].mu = NoTask
       /\ op' = [op EXCEPT
                   ![c].snap = {m \in heap[r].Clients : client[m].ID = loc[c].msg.To},
                   ![c].st = IF found = {} THEN "done" ELSE @]
       /\ IF found = {}
          THEN /\ pc' = [pc EXCEPT ![c] = "idle"]
               /\ loc' = [loc EXCEPT ![c] = NoLoc]
               /\ UNCHANGED heap
          ELSE /\ \E t \in found : loc' = [loc EXCEPT ![c].target = t]
               /\ heap' = [heap EXCEPT ![r].mu = c]
               /\ pc' = [pc EXCEPT ![c] = "sSend"]
    /\ UNCHANGED <<left, writing>>
    /\ UNCHANGED <<rooms, client, Send, sendClosed, conn, pump, nev, out,
                   nsent, lastw, alone, departed>>

\* mutant: the inbound envelope is forwarded as it came
ForwardedAsIs(c, msg) == msg

\* mutant: a new envelope is built from type, sender and recipient only
ForwardedBare(c, msg) == Message(msg.Type, client[c].ID, msg.To, "", "", "")

\* msg.From = client.ID
Forwarded(c, msg) == [msg EXCEPT !.From = client[c].ID]

\* targetClient.Send <- msg; the deferred room.mu.Unlock() runs on return and
\* on panic alike
SigSend(c) ==
    /\ pc[c] = "sSend"
    /\ \/ /\ Enqueue(c, loc[c].target, Forwarded(c, loc[c].msg))
          /\ Finish(c)
          /\ pc' = [pc EXCEPT ![c] = "idle"]
          /\ loc' = [loc EXCEPT ![c] = NoLoc]
       \/ /\ sendClosed[loc[c].target]
          /\ Panic(c)
          /\ UNCHANGED <<loc, Send, nsent, out, lastw>>
    /\ heap' = [heap EXCEPT ![loc[c].room].mu = NoTask]
    /\ UNCHANGED <<left, writing>>
    /\ UNCHANGED <<rooms, client, sendClosed, conn, pump, nev, alone, departed>>

\* -------------------------------------------------- removeClientFromRoom
\* the client.RoomID check, then roomsMu.Lock(); room := rooms[client.RoomID];
\* roomsMu.Unlock(); nil check.  disc: called from the read-error branch.
\* after: where the read task continues when the call returns at once.
EnterRemove(c, disc, after) ==
    LET room == Lookup(client[c].RoomID) IN
    /\ departed' = TRUE
    /\ IF client[c].RoomID = "" \/ room = NilRoom
       THEN /\ Begin(c, NewOp("remove", NoMsg, "done"))
            /\ pc' = [pc EXCEPT ![c] = after]
            /\ UNCHANGED loc
       ELSE /\ Begin(c, [NewOp("remove", NoMsg, "run") EXCEPT !.room = room])
            /\ pc' = [pc EXCEPT ![c] = "rRoom"]
            /\ loc' = [loc EXCEPT ![c] = [NoLoc EXCEPT !.room = room, !.disc = disc]]

\* case "leave": handleLeave
RecvLeave(c) ==
    /\ CanRead(c)
    /\ c \in Leavers
    /\ nev' = nev + 1
    /\ EnterRemove(c, FALSE, "idle")
    /\ UNCHANGED <<left, writing>>
    /\ UNCHANGED <<rooms, heap, client, Send, sendClosed, conn, pump, nsent,
                   lastw>>

\* conn.ReadMessage() failed (the peer went away, or the connection was
\* closed by writePump): `if client.RoomID != "" { removeClientFromRoom }`
ReadError(c) ==
    /\ pc[c] = "idle"
    /\ conn[c] = "closed" \/ (c \in Droppers /\ nev < MaxEvents)
    /\ nev' = IF conn[c] = "open" THEN nev + 1 ELSE nev
    /\ IF client[c].RoomID # ""
       THEN EnterRemove(c, TRUE, "closeSend")
       ELSE /\ pc' = [pc EXCEPT ![c] = "closeSend"]
            /\ UNCHANGED <<op, out, alone, loc, departed>>
    /\ UNCHANGED <<left, writing>>
    /\ UNCHANGED <<rooms, heap, client, Send, sendClosed, conn, pump, nsent,
                   lastw>>

\* where removeClientFromRoom returns to
AfterRemove(c) == IF loc[c].disc THEN "closeSend" ELSE "idle"

\* mutant: the departing session is not deleted from the room
RemainingAll(r, c) == heap[r].Clients

\* delete(room.Clients, client)
Remaining(r, c) == heap[r].Clients \ {c}

\* room.mu.Lock(); delete(room.Clients, client); clientCount := len(...);
\* entry of the range loop (an empty room: room.mu.Unlock() at once, and
\* clientCount is 0)
RemLockRoom(c) ==
    /\ pc[c] = "rRoom"
    /\ LET r == loc[c].room
           rest == Remaining(r, c) IN
       /\ heap[r].mu = NoTask
       /\ heap' = [heap EXCEPT ![r].Clients = rest,
                               ![r].mu = IF rest = {} THEN NoTask ELSE c]
       /\ loc' = [loc EXCEPT ![c].todo = rest,
                             ![c].clientCount = Cardinality(rest)]
       /\ op' = [op EXCEPT ![c].snap = heap[r].Clients \ {c},
                           ![c].count = Cardinality(heap[r].Clients \ {c})]
       /\ pc' = [pc EXCEPT ![c] = IF rest = {} THEN "rReg" ELSE "rNotify"]
    /\ UNCHANGED <<left, writing>>
    /\ UNCHANGED <<rooms, client, Send, sendClosed, conn, pump, nev, out,
                   nsent, lastw, alone, departed>>

UserLeft(c) == Message("user-left", client[c].ID, "", client[c].RoomID, "", "")

\* one iteration of `for otherClient := range room.Clients`; after the last
\* one room.mu.Unlock(), and clientCount is not 0: return
RemNotify(c) ==
    /\ pc[c] = "rNotify"
    /\ \E o \in loc[c].todo :
         \/ /\ Enqueue(c, o, UserLeft(c))
            /\ IF loc[c].todo = {o}
               THEN /\ heap' = [heap EXCEPT ![loc[c].room].mu = NoTask]
                    /\ pc' = [pc EXCEPT ![c] = AfterRemove(c)]
                    /\ loc' = [loc EXCEPT ![c] = NoLoc]
                    /\ Finish(c)
                    /\ left' = [left EXCEPT ![c] = @ \/ ~loc[c].disc]
               ELSE /\ loc' = [loc EXCEPT ![c].todo = @ \ {o}]
                    /\ UNCHANGED <<heap, pc, op, left>>
         \/ /\ sendClosed[o]
            /\ Panic(c)
            /\ UNCHANGED <<heap, loc, Send, nsent, out, lastw, left>>
    /\ UNCHANGED writing
    /\ UNCHANGED <<rooms, client, sendClosed, conn, pump, nev, alone, departed>>

\* mutant: the empty room is left in the registry
DeleteNothing(id) == rooms

\* delete(rooms, id) of a Go map
Delete(id) == [r \in DOMAIN rooms |-> IF r = id THEN NilRoom ELSE rooms[r]]

\* if clientCount == 0 { roomsMu.Lock(); delete(rooms, client.RoomID);
\* roomsMu.Unlock() }; return
RemDeleteRoom(c) ==
    /\ pc[c] = "rReg"
    /\ rooms' = Delete(client[c].RoomID)
    /\ Finish(c)
    /\ left' = [left EXCEPT ![c] = @ \/ ~loc[c].disc]
    /\ alone' = [alone EXCEPT ![c] = OthersQuiet(c)]
    /\ pc' = [pc EXCEPT ![c] = AfterRemove(c)]
    /\ loc' = [loc EXCEPT ![c] = NoLoc]
    /\ UNCHANGED writing
    /\ UNCHANGED <<heap, client, Send, sendClosed, conn, pump, nev, out, nsent,
                   lastw, departed>>

\* -------------------------------------------- end of the read task
\* close(client.Send)
CloseSend(c) ==
    /\ pc[c] = "closeSend"
    /\ sendClosed' = [sendClosed EXCEPT ![c] = TRUE]
    /\ pc' = [pc EXCEPT ![c] = "closeConn"]
    /\ UNCHANGED <<left, writing>>
    /\ UNCHANGED <<rooms, heap, client, Send, conn, pump, loc, nev, op, out,
                   nsent, lastw, alone, departed>>

\* conn.Close(); break
CloseConn(c) ==
    /\ pc[c] = "closeConn"
    /\ conn' = [conn EXCEPT ![c] = "closed"]
    /\ pc' = [pc EXCEPT ![c] = "done"]
    /\ UNCHANGED <<left, writing>>
    /\ UNCHANGED <<rooms, heap, client, Send, sendClosed, pump, loc, nev, op,
                   out, nsent, lastw, alone, departed>>

\* default: an unknown message type is logged
RecvUnknown(c) ==
    /\ CanRead(c)
    /\ nev' = nev + 1
    /\ UNCHANGED <<left, writing>>
    /\ UNCHANGED <<rooms, heap, client, Send, sendClosed, conn, pump, pc,
                   loc, op, out, nsent, lastw, alone, departed>>

\* ------------------------------------------------------------- writePump
\* mutant: the drain loop takes the newest envelope of the queue
PumpWriteNewest(c) ==
    /\ pump[c] = "running"
    /\ Send[c] # <<>>
    /\ conn[c] = "open"
    /\ Send' = [Send EXCEPT ![c] = SubSeq(@, 1, Len(@) - 1)]
    /\ lastw' = [lastw EXCEPT ![c][Send[c][Len(Send[c])].by] =
                                   Send[c][Len(Send[c])].k]
    /\ UNCHANGED <<left, writing>>
    /\ UNCHANGED <<rooms, heap, client, sendClosed, conn, pump, pc, loc, nev,
                   op, out, nsent, alone, departed>>

\* `for message := range c.Send`: receive the oldest envelope, marshal it,
\* c.Conn.WriteMessage succeeds
PumpWrite(c) ==
    /\ pump[c] = "running"
    /\ Send[c] # <<>>
    /\ conn[c] = "open"
    /\ Send' = [Send EXCEPT ![c] = Tail(@)]
    /\ lastw' = [lastw EXCEPT ![c][Head(Send[c]).by] = Head(Send[c]).k]
    /\ UNCHANGED <<left, writing>>
    /\ UNCHANGED <<rooms, heap, client, sendClosed, conn, pump, pc, loc, nev,
                   op, out, nsent, alone, departed>>

\* c.Conn.WriteMessage fails (always, on a closed connection): return, and
\* the deferred c.Conn.Close()
PumpWriteFail(c) ==
    /\ pump[c] = "running"
    /\ Send[c] # <<>>
    /\ conn[c] = "closed" \/ (c \in Flaky /\ nev < MaxEvents)
    /\ Send' = [Send EXCEPT ![c] = Tail(@)]
    /\ nev' = IF conn[c] = "open" THEN nev + 1 ELSE nev
    /\ pump' = [pump EXCEPT ![c] = "stopped"]
    /\ conn' = [conn EXCEPT ![c] = "closed"]
    /\ UNCHANGED <<left, writing>>
    /\ UNCHANGED <<rooms, heap, client, sendClosed, pc, loc, op, out, nsent,
                   lastw, alone, departed>>

\* the range loop ends on the closed, drained channel; c.Conn.Close()
PumpExit(c) ==
    /\ pump[c] = "running"
    /\ Send[c] = <<>>
    /\ sendClosed[c]
    /\ pump' = [pump EXCEPT ![c] = "stopped"]
    /\ conn' = [conn EXCEPT ![c] = "closed"]
    /\ UNCHANGED <<left, writing>>
    /\ UNCHANGED <<rooms, heap, client, Send, sendClosed, pc, loc, nev, op,
                   out, nsent, lastw, alone, departed>>

Next ==
    \E c \in Clients :
        \/ RecvJoin(c)
        \/ JoinGetOrCreate(c)
        \/ JoinLockRoom(c)
        \/ JoinNotify(c)
        \/ JoinEcho(c)
        \/ RecvSignal(c)
        \/ SigLockRoom(c)
        \/ SigSend(c)
        \/ RecvLeave(c)
        \/ ReadError(c)
        \/ RemLockRoom(c)
        \/ RemNotify(c)
        \/ RemDeleteRoom(c)
        \/ CloseSend(c)
        \/ CloseConn(c)
        \/ RecvUnknown(c)
        \/ PumpWrite(c)
        \/ PumpWriteFail(c)
        \/ PumpExit(c)

Spec == Init /\ [][Next]_vars

\* =================================================== direct-write server
(***************************************************************************)
(* Model of the direct-write server (src/main.go).  There is no queue and  *)
(* no drain loop: sendMessage calls Conn.WriteMessage of the recipient's   *)
(* connection from the read task of the sender.  A Room keeps its members  *)
(* in a map from id to session.  The variables of the queues keep their    *)
(* initial values.                                                         *)
(*                                                                         *)
(* handleSignaling, removeClientFromRoom and notifyOthersInRoom read the   *)
(* map `rooms` without roomsMu.  A write of the map is therefore two       *)
(* steps, and a read that meets a write in progress either sees the map as *)
(* it was or ends the process (the runtime's fatal error).  A call of      *)
(* WriteMessage is two steps as well; one that overlaps another on the     *)
(* same connection either goes on or panics its task.                      *)
(***************************************************************************)
queueVars == <<Send, sendClosed, pump, op, out, nsent, lastw, alone, departed,
               left>>

\* the keys of the map `rooms`: a join frame without roomId creates the room ""
DirectRoomIds == RoomIds \cup {""}

DirectInit ==
    /\ rooms = [r \in DirectRoomIds |-> NilRoom]
    /\ heap = <<>>
    /\ client = [c \in Clients |-> [ID |-> "", Username |-> "", RoomID |-> ""]]
    /\ conn = [c \in Clients |-> "open"]
    /\ pc = [c \in Clients |-> "idle"]
    /\ loc = [c \in Clients |-> NoLoc]
    /\ nev = 0
    /\ writing = [c \in Clients |-> {}]
    /\ Send = [c \in Clients |-> <<>>]
    /\ sendClosed = [c \in Clients |-> FALSE]
    /\ pump = [c \in Clients |-> "stopped"]
    /\ op = [c \in Clients |-> NoOp]
    /\ out = [c \in Clients |-> <<>>]
    /\ nsent = [s \in Clients |-> [r \in Clients |-> 0]]
    /\ lastw = [r \in Clients |-> [s \in Clients |-> 0]]
    /\ alone = [c \in Clients |-> FALSE]
    /\ departed = FALSE
    /\ left = [c \in Clients |-> FALSE]

\* roomsMu is free: no task is inside a write of the map `rooms` (every other
\* section under roomsMu is one step)
RoomsMuFree == \A d \in Clients : pc[d] \notin {"dIns", "dDel"}

\* make(map[string]*Client)
EmptyMap == [k \in {} |-> 0]

\* room.Clients[id] = c
Put(m, id, c) == [k \in DOMAIN m \cup {id} |-> IF k = id THEN c ELSE m[k]]

\* delete(room.Clients, id)
Drop(m, id) == [k \in DOMAIN m \ {id} |-> m[k]]

\* a recovered panic of the read task; the deferred room.mu.Unlock() of
\* notifyOthersInRoom runs
DirectPanic(c) ==
    /\ pc' = [pc EXCEPT ![c] = "panicked"]
    /\ heap' = [i \in DOMAIN heap |->
                  IF heap[i].mu = c THEN [heap[i] EXCEPT !.mu = NoTask]
                  ELSE heap[i]]

\* ---------------------------------------------------- handleJoin (direct)
\* case "join": client.ID, client.RoomID, client.Username (no roomId check)
DRecvJoin(c) ==
    /\ CanRead(c)
    /\ \E rid \in JoinRooms(c) :
         LET msg == Message("join", IdOf(c), "", rid, NameOf(c), "") IN
         /\ client' = [client EXCEPT ![c] =
               [ID |-> msg.From, Username |-> msg.Username, RoomID |-> msg.RoomID]]
         /\ loc' = [loc EXCEPT ![c] = [NoLoc EXCEPT !.msg = msg]]
    /\ nev' = nev + 1
    /\ pc' = [pc EXCEPT ![c] = "dGet"]
    /\ UNCHANGED <<rooms, heap, conn, writing>>
    /\ UNCHANGED queueVars

\* getOrCreateRoom: roomsMu.Lock(); the lookup; an existing room is returned
\* (the deferred Unlock), else the Room is allocated and the write
\* rooms[roomID] = room begins
DGetOrCreateRoom(c) ==
    /\ pc[c] = "dGet"
    /\ RoomsMuFree
    /\ LET rid == loc[c].msg.RoomID IN
       IF rooms[rid] # NilRoom
       THEN /\ loc' = [loc EXCEPT ![c].room = rooms[rid]]
            /\ pc' = [pc EXCEPT ![c] = "dAdd"]
            /\ UNCHANGED heap
       ELSE /\ heap' = Append(heap, [ID |-> rid, Clients |-> EmptyMap, mu |-> NoTask])
            /\ loc' = [loc EXCEPT ![c].room = Len(heap) + 1]
            /\ pc' = [pc EXCEPT ![c] = "dIns"]
    /\ UNCHANGED <<rooms, client, conn, nev, writing>>
    /\ UNCHANGED queueVars

\* rooms[roomID] = room is done; return room (the deferred roomsMu.Unlock())
DInsertRoom(c) ==
    /\ pc[c] = "dIns"
    /\ rooms' = [rooms EXCEPT ![loc[c].msg.RoomID] = loc[c].room]
    /\ pc' = [pc EXCEPT ![c] = "dAdd"]
    /\ UNCHANGED <<heap, client, conn, loc, nev, writing>>
    /\ UNCHANGED queueVars

\* room.mu.Lock(); room.Clients[client.ID] = client; room.mu.Unlock(); then
\* the response for sendMessage(client, response)
DJoinAdd(c) ==
    /\ pc[c] = "dAdd"
    /\ LET r == loc[c].room IN
       /\ heap[r].mu = NoTask
       /\ heap' = [heap EXCEPT ![r].Clients = Put(@, client[c].ID, c)]
    /\ loc' = [loc EXCEPT ![c].target = c]
    /\ pc' = [pc EXCEPT ![c] = "dEcho"]
    /\ UNCHANGED <<rooms, client, conn, nev, writing>>
    /\ UNCHANGED queueVars

\* ------------------------------------------------ sendMessage (direct)
\* the sessions the next sendMessage of task c can go to: the one session of
\* the echo or of the forward, any member left in the loop (map order)
SendTargets(c) == IF pc[c] = "dNote" THEN loc[c].todo ELSE {loc[c].target}

\* where removeClientFromRoom returns to
DAfterRemove(c) == IF loc[c].disc THEN "closeConn" ELSE "idle"

\* the return of notifyOthersInRoom: to the end of handleJoin, or to the
\* clientCount check of removeClientFromRoom
NotifyReturn(c) ==
    IF loc[c].msg.Type = "join" THEN "idle"
    ELSE IF loc[c].clientCount = 0 THEN "dReg"
    ELSE DAfterRemove(c)

\* sendMessage: json.Marshal, then client.Conn.WriteMessage is entered; if
\* another task is inside WriteMessage of the same connection the call may
\* panic
DSendBegin(c) ==
    /\ pc[c] \in {"dEcho", "dSig", "dNote"}
    /\ \E t \in SendTargets(c) :
         \/ /\ writing' = [writing EXCEPT ![t] = @ \cup {c}]
            /\ loc' = [loc EXCEPT ![c].target = t]
            /\ pc' = [pc EXCEPT ![c] =
                        CASE pc[c] = "dEcho" -> "dEchoW"
                          [] pc[c] = "dSig" -> "dSigW"
                          [] pc[c] = "dNote" -> "dNoteW"]
            /\ UNCHANGED heap
         \/ /\ writing[t] # {}
            /\ DirectPanic(c)
            /\ UNCHANGED <<writing, loc>>
    /\ UNCHANGED <<rooms, client, conn, nev>>
    /\ UNCHANGED queueVars

\* WriteMessage returns (an error is logged).  After the echo of handleJoin:
\* notifyOthersInRoom; after the forward: return; in the loop: the next
\* member, or the deferred room.mu.Unlock() and return
DSendEnd(c) ==
    /\ pc[c] \in {"dEchoW", "dSigW", "dNoteW"}
    /\ LET t == loc[c].target IN
       /\ writing' = [writing EXCEPT ![t] = @ \ {c}]
       /\ \/ /\ pc[c] = "dEchoW"
             /\ pc' = [pc EXCEPT ![c] = "dNotify"]
             /\ UNCHANGED <<heap, loc>>
          \/ /\ pc[c] = "dSigW"
             /\ pc' = [pc EXCEPT ![c] = "idle"]
             /\ loc' = [loc EXCEPT ![c] = NoLoc]
             /\ UNCHANGED heap
          \/ /\ pc[c] = "dNoteW"
             /\ loc[c].todo # {t}
             /\ loc' = [loc EXCEPT ![c].todo = @ \ {t}]
             /\ pc' = [pc EXCEPT ![c] = "dNote"]
             /\ UNCHANGED heap
          \/ /\ pc[c] = "dNoteW"
             /\ loc[c].todo = {t}
             /\ heap' = [heap EXCEPT ![loc[c].room].mu = NoTask]
             /\ pc' = [pc EXCEPT ![c] = NotifyReturn(c)]
             /\ loc' = IF NotifyReturn(c) = "dReg"
                       THEN [loc EXCEPT ![c].todo = {}]
                       ELSE [loc EXCEPT ![c] = NoLoc]
          \/ /\ writing[t] # {c}
             /\ DirectPanic(c)
             /\ UNCHANGED loc
    /\ UNCHANGED <<rooms, client, conn, nev>>
    /\ UNCHANGED queueVars

\* ------------------------------------------ notifyOthersInRoom (direct)
\* room := rooms[sender.RoomID], read without roomsMu; nil: return
DNotifyLookup(c) ==
    /\ pc[c] = "dNotify"
    /\ LET room == rooms[client[c].RoomID] IN
       IF room = NilRoom
       THEN /\ pc' = [pc EXCEPT ![c] = NotifyReturn(c)]
            /\ loc' = IF NotifyReturn(c) = "dReg" THEN loc
                      ELSE [loc EXCEPT ![c] = NoLoc]
       ELSE /\ pc' = [pc EXCEPT ![c] = "dNoteLock"]
            /\ loc' = [loc EXCEPT ![c].room = room]
    /\ UNCHANGED <<rooms, heap, client, conn, nev, writing>>
    /\ UNCHANGED queueVars

\* the members the loop sends to: `if clientID != sender.ID`
Recipients(r, c) ==
    {heap[r].Clients[k] : k \in DOMAIN heap[r].Clients \ {client[c].ID}}

\* room.mu.Lock(); defer room.mu.Unlock(); entry of the range loop (nobody
\* to send to: return)
DNotifyLock(c) ==
    /\ pc[c] = "dNoteLock"
    /\ LET r == loc[c].room IN
       /\ heap[r].mu = NoTask
       /\ IF Recipients(r, c) = {}
          THEN /\ pc' = [pc EXCEPT ![c] = NotifyReturn(c)]
               /\ loc' = IF NotifyReturn(c) = "dReg" THEN loc
                         ELSE [loc EXCEPT ![c] = NoLoc]
               /\ UNCHANGED heap
          ELSE /\ heap' = [heap EXCEPT ![r].mu = c]
               /\ loc' = [loc EXCEPT ![c].todo = Recipients(r, c)]
               /\ pc' = [pc EXCEPT ![c] = "dNote"]
    /\ UNCHANGED <<rooms, client, conn, nev, writing>>
    /\ UNCHANGED queueVars

\* ----------------------------------------------- handleSignaling (direct)
\* case "offer", "answer", "ice-candidate": the msg.To check
DRecvSignal(c) ==
    /\ CanRead(c)
    /\ \E f \in SigFrames(c) :
         LET msg == Message(f[1], InboundFrom, f[2], "", "", f[3]) IN
         IF msg.To = ""
         THEN UNCHANGED <<pc, loc>>
         ELSE /\ pc' = [pc EXCEPT ![c] = "dSigGet"]
              /\ loc' = [loc EXCEPT ![c] = [NoLoc EXCEPT !.msg = msg]]
    /\ nev' = nev + 1
    /\ UNCHANGED <<rooms, heap, client, conn, writing>>
    /\ UNCHANGED queueVars

\* room := rooms[client.RoomID], read without roomsMu; nil: return
DSigLookup(c) ==
    /\ pc[c] = "dSigGet"
    /\ LET room == rooms[client[c].RoomID] IN
       IF room = NilRoom
       THEN /\ pc' = [pc EXCEPT ![c] = "idle"]
            /\ loc' = [loc EXCEPT ![c] = NoLoc]
       ELSE /\ pc' = [pc EXCEPT ![c] = "dSigFind"]
            /\ loc' = [loc EXCEPT ![c].room = room]
    /\ UNCHANGED <<rooms, heap, client, conn, nev, writing>>
    /\ UNCHANGED queueVars

\* room.mu.Lock(); targetClient, exists := room.Clients[msg.To];
\* room.mu.Unlock(); !exists: return; msg.From = client.ID
DSigFind(c) ==
    /\ pc[c] = "dSigFind"
    /\ LET r == loc[c].room
           to == loc[c].msg.To IN
       /\ heap[r].mu = NoTask
       /\ IF to \in DOMAIN heap[r].Clients
          THEN /\ loc' = [loc EXCEPT ![c].target = heap[r].Clients[to],
                                     ![c].msg.From = client[c].ID]
               /\ pc' = [pc EXCEPT ![c] = "dSig"]
          ELSE /\ loc' = [loc EXCEPT ![c] = NoLoc]
               /\ pc' = [pc EXCEPT ![c] = "idle"]
    /\ UNCHANGED <<rooms, heap, client, conn, nev, writing>>
    /\ UNCHANGED queueVars

\* ------------------------------------------ removeClientFromRoom (direct)
\* the client.RoomID check.  disc: called from the read-error branch.
DEnterRemove(c, disc) ==
    IF client[c].RoomID = ""
    THEN /\ pc' = [pc EXCEPT ![c] = IF disc THEN "closeConn" ELSE "idle"]
         /\ UNCHANGED loc
    ELSE /\ pc' = [pc EXCEPT ![c] = "dRemGet"]
         /\ loc' = [loc EXCEPT ![c] = [NoLoc EXCEPT !.disc = disc]]

\* case "leave": handleLeave
DRecvLeave(c) ==
    /\ CanRead(c)
    /\ c \in Leavers
    /\ nev' = nev + 1
    /\ DEnterRemove(c, FALSE)
    /\ UNCHANGED <<rooms, heap, client, conn, writing>>
    /\ UNCHANGED queueVars

\* conn.ReadMessage() failed: the peer went away
DReadError(c) ==
    /\ pc[c] = "idle"
    /\ conn[c] = "open"
    /\ c \in Droppers
    /\ nev < MaxEvents
    /\ nev' = nev + 1
    /\ DEnterRemove(c, TRUE)
    /\ UNCHANGED <<rooms, heap, client, conn, writing>>
    /\ UNCHANGED queueVars

\* room := rooms[client.RoomID], read without roomsMu; nil: return
DRemLookup(c) ==
    /\ pc[c] = "dRemGet"
    /\ LET room == rooms[client[c].RoomID] IN
       IF room = NilRoom
       THEN /\ pc' = [pc EXCEPT ![c] = DAfterRemove(c)]
            /\ loc' = [loc EXCEPT ![c] = NoLoc]
       ELSE /\ pc' = [pc EXCEPT ![c] = "dRem"]
            /\ loc' = [loc EXCEPT ![c].room = room]
    /\ UNCHANGED <<rooms, heap, client, conn, nev, writing>>
    /\ UNCHANGED queueVars

\* room.mu.Lock(); delete(room.Clients, client.ID); clientCount :=
\* len(room.Clients); room.mu.Unlock(); then notifyOthersInRoom
DRemDelete(c) ==
    /\ pc[c] = "dRem"
    /\ LET r == loc[c].room
           rest == Drop(heap[r].Clients, client[c].ID) IN
       /\ heap[r].mu = NoTask
       /\ heap' = [heap EXCEPT ![r].Clients = rest]
       /\ loc' = [loc EXCEPT ![c].clientCount = Cardinality(DOMAIN rest)]
    /\ pc' = [pc EXCEPT ![c] = "dNotify"]
    /\ UNCHANGED <<rooms, client, conn, nev, writing>>
    /\ UNCHANGED queueVars

\* clientCount == 0: roomsMu.Lock(); delete(rooms, client.RoomID) begins
DDeleteRoomBegin(c) ==
    /\ pc[c] = "dReg"
    /\ RoomsMuFree
    /\ pc' = [pc EXCEPT ![c] = "dDel"]
    /\ UNCHANGED <<rooms, heap, client, conn, loc, nev, writing>>
    /\ UNCHANGED queueVars

\* delete(rooms, client.RoomID) is done; roomsMu.Unlock(); return
DDeleteRoomEnd(c) ==
    /\ pc[c] = "dDel"
    /\ rooms' = [rooms EXCEPT ![client[c].RoomID] = NilRoom]
    /\ pc' = [pc EXCEPT ![c] = DAfterRemove(c)]
    /\ loc' = [loc EXCEPT ![c] = NoLoc]
    /\ UNCHANGED <<heap, client, conn, nev, writing>>
    /\ UNCHANGED queueVars

\* conn.Close(); break
DCloseConn(c) ==
    /\ pc[c] = "closeConn"
    /\ conn' = [conn EXCEPT ![c] = "closed"]
    /\ pc' = [pc EXCEPT ![c] = "done"]
    /\ UNCHANGED <<rooms, heap, client, loc, nev, writing>>
    /\ UNCHANGED queueVars

\* default: an unknown message type is logged
DRecvUnknown(c) ==
    /\ CanRead(c)
    /\ nev' = nev + 1
    /\ UNCHANGED <<rooms, heap, client, conn, pc, loc, writing>>
    /\ UNCHANGED queueVars

\* A read of the map `rooms` without roomsMu (lines 156, 189, 232) while
\* another task is inside a write of it: the runtime may end the process
\* with "concurrent map read and map write".
DMapRace(c) ==
    /\ pc[c] \in {"dSigGet", "dRemGet", "dNotify"}
    /\ \E d \in Clients \ {c} : pc[d] \in {"dIns", "dDel"}
    /\ pc' = [d \in Clients |-> "fatal"]
    /\ UNCHANGED <<rooms, heap, client, conn, loc, nev, writing>>
    /\ UNCHANGED queueVars

DirectNext ==
    \E c \in Clients :
        \/ DRecvJoin(c)
        \/ DGetOrCreateRoom(c)
        \/ DInsertRoom(c)
        \/ DJoinAdd(c)
        \/ DSendBegin(c)
        \/ DSendEnd(c)
        \/ DNotifyLookup(c)
        \/ DNotifyLock(c)
        \/ DRecvSignal(c)
        \/ DSigLookup(c)
        \/ DSigFind(c)
        \/ DRecvLeave(c)
        \/ DReadError(c)
        \/ DRemLookup(c)
        \/ DRemDelete(c)
        \/ DDeleteRoomBegin(c)
        \/ DDeleteRoomEnd(c)
        \/ DCloseConn(c)
        \/ DRecvUnknown(c)
        \/ DMapRace(c)

SpecDirect == DirectInit /\ [][DirectNext]_vars

\* ================================================================ claims
\* Every read task is between handlers (or has ended normally).
Quiescent ==
    \A c \in Clients : pc[c] \in {"idle", "closeSend", "closeConn", "done"}

\* The Room objects created under room id rid.
RoomsOf(rid) == {i \in DOMAIN heap : heap[i].ID = rid}

\* Session c has been added to a room under rid by a join that returned, and
\* has not called removeClientFromRoom since.
JoinedIn(c, rid) ==
    /\ op[c].kind = "join"
    /\ op[c].st = "done"
    /\ op[c].msg.RoomID = rid

\* The number of envelopes of type ty that c's current handler invocation
\* has enqueued on m's queue.
Sent(c, m, ty) ==
    Cardinality({i \in DOMAIN out[c] : out[c][i].to = m /\ out[c][i].env.Type = ty})

\* C1: a departure that empties a room racing with a join of the same room id
\* never corrupts the registry: once the operations have completed, every
\* session that joined and did not depart is a member of the Room the
\* registry maps under that id, and never do two Room objects with members
\* exist for one id.
C1_RegistryNotCorrupted ==
    /\ Quiescent =>
         \A c \in Clients : \A rid \in RoomIds :
            JoinedIn(c, rid) =>
               /\ rooms[rid] # NilRoom
               /\ c \in heap[rooms[rid]].Clients
    /\ \A i, j \in DOMAIN heap :
          (i # j /\ heap[i].ID = heap[j].ID) =>
             (heap[i].Clients = {} \/ heap[j].Clients = {})

\* C2: when sessions concurrently send their first join for a room id that
\* is not in the registry and no departure runs, exactly one Room object is
\* ever created for that id, and every session whose join has added it is a
\* member of that one Room.
C2_OneRoomPerId ==
    ~departed =>
       \A rid \in RoomIds :
          /\ Cardinality(RoomsOf(rid)) <= 1
          /\ \A c \in Clients :
                (client[c].RoomID = rid /\ pc[c] \notin {"jReg", "jRoom"}) =>
                   /\ rooms[rid] # NilRoom
                   /\ c \in heap[rooms[rid]].Clients

\* C2 witness: three joins of one new room id that overlapped have all
\* returned, and no departure has run.
C2_Witness ==
    /\ ~departed
    /\ \A c \in Clients : JoinedIn(c, "r1") /\ pc[c] = "idle" /\ ~alone[c]
    /\ Cardinality(heap[rooms["r1"]].Clients) = 3

\* C3: for a join of session c, every envelope `user-joined` it enqueues
\* goes to a session that was a member other than c when c was added, with
\* c's id and username; no session gets two; when the join has returned
\* every such member has got exactly one, and c none.
C3_UserJoinedOncePerMember ==
    \A c \in Clients :
       op[c].kind = "join" =>
          /\ \A i \in DOMAIN out[c] :
                out[c][i].env.Type = "user-joined" =>
                   /\ out[c][i].to \in op[c].snap
                   /\ out[c][i].env.From = client[c].ID
                   /\ out[c][i].env.Username = client[c].Username
          /\ \A m \in Clients : Sent(c, m, "user-joined") <= 1
          /\ Sent(c, c, "user-joined") = 0
          /\ op[c].st = "done" =>
                \A m \in op[c].snap : Sent(c, m, "user-joined") = 1

\* C3 witness: a join has returned that found two other members in the room.
C3_Witness ==
    \E c \in Clients :
       /\ op[c].kind = "join" /\ op[c].st = "done"
       /\ Cardinality(op[c].snap) = 2

\* The envelope a forwarded inbound frame msg of session c must become.
Relayed(c, msg) == [msg EXCEPT !.From = client[c].ID]

\* Session c's signaling frame found its room and at least one member
\* carrying the id in `to`, and the handler has returned.
SignalDelivered(c) ==
    /\ op[c].kind = "signal"
    /\ op[c].st = "done"
    /\ op[c].snap # {}

\* C4 as claimed: a signaling envelope whose `to` is the id of member B of the
\* sender's room puts exactly one envelope on B's queue and on no other
\* queue, with the type and data sent and the sender's id as `from`.
C4_UnicastToEveryBearer ==
    \A c \in Clients :
       SignalDelivered(c) =>
          \A b \in op[c].snap :
             out[c] = <<[to |-> b, env |-> Relayed(c, op[c].msg)]>>

\* C4 amended: the same, provided B is the only member of the room whose id
\* is `to`.
C4_UnicastToUniqueId ==
    \A c \in Clients :
       SignalDelivered(c) =>
          \A b \in op[c].snap :
             op[c].snap = {b} =>
                out[c] = <<[to |-> b, env |-> Relayed(c, op[c].msg)]>>

\* C4 witness: an offer to "b" was delivered in a room of three members of
\* which one carries that id.
C4_Witness ==
    \E c \in Clients :
       /\ SignalDelivered(c)
       /\ Cardinality(op[c].snap) = 1
       /\ c \notin op[c].snap
       /\ Cardinality(heap[op[c].room].Clients) = 3
       /\ Len(out[c]) = 1

\* C5: for a departure of session c, every envelope it enqueues is a
\* `user-left` with c's id that goes to a session remaining in the room
\* after c's removal; no session gets two; when the departure has returned
\* every remaining member has got exactly one, and c none.
C5_UserLeftOncePerRemaining ==
    \A c \in Clients :
       op[c].kind = "remove" =>
          /\ \A i \in DOMAIN out[c] :
                /\ out[c][i].env.Type = "user-left"
                /\ out[c][i].env.From = client[c].ID
                /\ out[c][i].to \in op[c].snap
                /\ out[c][i].to # c
          /\ \A m \in Clients : Sent(c, m, "user-left") <= 1
          /\ op[c].st = "done" =>
                \A m \in op[c].snap : Sent(c, m, "user-left") = 1

\* C5 witness: a session went away from a room in which two others remain,
\* and its cleanup has returned.
C5_Witness ==
    \E c \in Clients :
       /\ op[c].kind = "remove" /\ op[c].st = "done"
       /\ pc[c] \in {"closeSend", "closeConn", "done"}
       /\ Cardinality(op[c].snap) = 2

\* C6: when a departure that left its room with zero members has returned
\* with no other handler in progress, the registry has no entry for the room
\* id; and a join running alone that finds no entry creates a Room whose
\* only member is the joining session.
C6_EmptyRoomReaped ==
    \A c \in Clients :
       /\ (/\ op[c].kind = "remove" /\ op[c].st = "done"
           /\ op[c].room # NilRoom /\ op[c].count = 0
           /\ alone[c])
          => rooms[client[c].RoomID] = NilRoom
       /\ (/\ op[c].kind = "join" /\ op[c].created
           /\ pc[c] # "jRoom"
           /\ alone[c])
          => heap[op[c].room].Clients = {c}

\* C6 witness: after a room was emptied and reaped, a join of the same id
\* running alone has created a second Room object.
C6_Witness ==
    \E c \in Clients :
       /\ op[c].kind = "join" /\ op[c].created /\ op[c].st = "done"
       /\ alone[c]
       /\ op[c].room = 2
       /\ heap[1].ID = heap[2].ID
       /\ heap[1].Clients = {}

\* C7: the envelopes one read task s enqueues on the queue of a session r are
\* written to r's transport in the order of their enqueueing: each write of
\* an envelope of s is the one enqueued next after the last one written.
C7_WrittenInEnqueueOrder ==
    [][\A r, s \in Clients :
          lastw'[r][s] # lastw[r][s] => lastw'[r][s] = lastw[r][s] + 1]_vars

\* C7 witness: two envelopes of one sender have been written to the
\* transport of another session.
C7_Witness ==
    \E r, s \in Clients : r # s /\ lastw[r][s] = 2

\* C8: every envelope enqueued for a session other than its originator
\* carries the originator's stored id as `from`.
C8_FromIsStoredId ==
    \A c \in Clients : \A i \in DOMAIN out[c] :
       out[c][i].to # c =>
          /\ out[c][i].env.Type \in {"user-joined", "user-left"} \cup
                                     {f[1] : f \in SigFrames(c)}
          /\ out[c][i].env.From = client[c].ID

\* C8 witness: a forwarded envelope whose inbound `from` was not the
\* sender's id.
C8_Witness ==
    \E c \in Clients : \E i \in DOMAIN out[c] :
       /\ op[c].kind = "signal"
       /\ out[c][i].to # c
       /\ op[c].msg.From # client[c].ID

\* The frame of session c's last signaling handler was dropped: no
\* recipient, no Room under the sender's roomId, or no member with that id.
SignalDropped(c) ==
    /\ op[c].kind = "signal"
    /\ op[c].st = "done"
    /\ \/ op[c].msg.To = ""
       \/ op[c].room = NilRoom
       \/ op[c].snap = {}

\* A step of session c's read task inside handleSignaling.
SignalStep(c) ==
    /\ op'[c].kind = "signal"
    /\ pc'[c] # pc[c] \/ op'[c] # op[c]

Memberships == [i \in DOMAIN heap |-> heap[i].Clients]

\* C9: a signaling frame that is dropped enqueues nothing on any queue, and
\* no step of handleSignaling changes the registry or a room's membership.
C9_DroppedSignalIsNoOp ==
    /\ [](\A c \in Clients : SignalDropped(c) => out[c] = <<>>)
    /\ [][\A c \in Clients :
            SignalStep(c) =>
               /\ rooms' = rooms
               /\ Memberships' = Memberships
               /\ SignalDropped(c)' => Send' = Send]_vars

\* C9 witness: a frame addressed to an id no member of the sender's room
\* carries was dropped.
C9_Witness ==
    \E c \in Clients :
       /\ SignalDropped(c)
       /\ op[c].msg.To # ""
       /\ op[c].room # NilRoom
       /\ heap[op[c].room].Clients # {}

\* C10: a join frame with an empty roomId changes nothing: the registry, the
\* rooms, the queues and the session's id, username and roomId stay as they
\* were.
C10_EmptyRoomIdJoinDropped ==
    [][\A c \in Clients :
          (/\ op'[c] # op[c]
           /\ op'[c].kind = "join"
           /\ op'[c].msg.RoomID = "")
          => /\ client' = client
             /\ rooms' = rooms
             /\ heap' = heap
             /\ Send' = Send]_vars

\* C11: a join that has returned has enqueued exactly one `joined` envelope,
\* on the joining session's own queue, carrying the room id of the join
\* frame; no envelope `joined` of a join ever goes to another session, and no
\* other handler enqueues one.
C11_JoinedEchoedToJoinerOnly ==
    \A c \in Clients :
       /\ \A i \in DOMAIN out[c] :
             out[c][i].env.Type = "joined" =>
                /\ op[c].kind = "join"
                /\ out[c][i].to = c
                /\ out[c][i].env.RoomID = op[c].msg.RoomID
                /\ i = Len(out[c])
       /\ (op[c].kind = "join" /\ op[c].st = "done" /\ op[c].msg.RoomID # "") =>
             Sent(c, c, "joined") = 1

\* C11 witness: a join of a room with two other members has returned: its
\* `joined` follows the two `user-joined` it enqueued.
C11_Witness ==
    \E c \in Clients :
       /\ op[c].kind = "join" /\ op[c].st = "done"
       /\ Len(out[c]) = 3
       /\ out[c][3] = [to |-> c, env |-> Message("joined", "", "", "r1", "", "")]

\* C12: every write to a session's transport is a step of that session's own
\* drain loop, which writes the envelope it has taken off the head of the
\* session's queue; no step of a read task writes to a transport, and no step
\* writes to two transports.
C12_OnlyPumpWrites ==
    [][\A r \in Clients :
          lastw'[r] # lastw[r] =>
             /\ pump[r] = "running"
             /\ Send[r] # <<>>
             /\ Send'[r] = Tail(Send[r])
             /\ pc' = pc
             /\ nsent' = nsent
             /\ \A q \in Clients \ {r} : lastw'[q] = lastw[q]]_vars

\* C12 witness: envelopes enqueued by two different read tasks have been
\* written to the transport of one session.
C12_Witness ==
    \E r, s, t \in Clients :
       /\ s # t
       /\ lastw[r][s] > 0
       /\ lastw[r][t] > 0

\* C13: once a session has processed a leave that took it out of a room, no
\* step of its read task enqueues an envelope on another session's queue
\* (until it sends a join again).
C13_LeftIsTerminal ==
    [][\A c \in Clients :
          left[c] =>
             \A m \in Clients \ {c} : nsent'[c][m] = nsent[c][m]]_vars

\* ------------------------------------------ a later state of the server
\* The state of the server after session 3 has gone away without joining,
\* session 2 has joined room r1 and then session 1 has joined it, before the
\* drain loop of session 1 or 2 has written anything.  (The events are
\* counted from this state on.)
JoinFrame(c, rid) == Message("join", IdOf(c), "", rid, NameOf(c), "")

TwoJoined ==
    /\ rooms = [r \in RoomIds |-> IF r = "r1" THEN 1 ELSE NilRoom]
    /\ heap = <<[ID |-> "r1", Clients |-> {1, 2}, mu |-> NoTask]>>
    /\ client = [c \in Clients |->
                   IF c = 3 THEN [ID |-> "", Username |-> "", RoomID |-> ""]
                   ELSE [ID |-> IdOf(c), Username |-> NameOf(c), RoomID |-> "r1"]]
    /\ Send = [c \in Clients |->
                 CASE c = 1 -> <<[env |-> Message("joined", "", "", "r1", "", ""),
                                  by |-> 1, k |-> 1]>>
                   [] c = 2 -> <<[env |-> Message("joined", "", "", "r1", "", ""),
                                  by |-> 2, k |-> 1],
                                 [env |-> Message("user-joined", "a", "", "r1", "u1", ""),
                                  by |-> 1, k |-> 1]>>
                   [] c = 3 -> <<>>]
    /\ sendClosed = [c \in Clients |-> c = 3]
    /\ conn = [c \in Clients |-> IF c = 3 THEN "closed" ELSE "open"]
    /\ pump = [c \in Clients |-> IF c = 3 THEN "stopped" ELSE "running"]
    /\ pc = [c \in Clients |-> IF c = 3 THEN "done" ELSE "idle"]
    /\ loc = [c \in Clients |-> NoLoc]
    /\ op = [c \in Clients |->
               CASE c = 1 -> [NewOp("join", JoinFrame(1, "r1"), "done")
                                EXCEPT !.room = 1, !.snap = {2}]
                 [] c = 2 -> [NewOp("join", JoinFrame(2, "r1"), "done")
                                EXCEPT !.room = 1, !.created = TRUE]
                 [] c = 3 -> NoOp]
    /\ out = [c \in Clients |->
                CASE c = 1 -> <<[to |-> 2,
                                 env |-> Message("user-joined", "a", "", "r1", "u1", "")],
                                [to |-> 1,
                                 env |-> Message("joined", "", "", "r1", "", "")]>>
                  [] c = 2 -> <<[to |-> 2,
                                 env |-> Message("joined", "", "", "r1", "", "")]>>
                  [] c = 3 -> <<>>]
    /\ nsent = [s \in Clients |-> [r \in Clients |->
                  IF <<s, r>> \in {<<1, 1>>, <<1, 2>>, <<2, 2>>} THEN 1 ELSE 0]]
    /\ lastw = [r \in Clients |-> [s \in Clients |-> 0]]
    /\ alone = [c \in Clients |-> c = 1]
    /\ departed = FALSE
    /\ left = [c \in Clients |-> FALSE]
    /\ writing = [c \in Clients |-> {}]

InitTwoJoined ==
    /\ TwoJoined
    /\ nev = 0

SpecTwoJoined == InitTwoJoined /\ [][Next]_vars

\* Session s's drain loop has stopped on a failed write with s's queue full;
\* read task d holds the lock of a room while it waits to enqueue on s's
\* queue; s's read task, in its disconnect cleanup, waits for that lock.
Stalled(s, d) ==
    /\ s # d
    /\ pump[s] = "stopped"
    /\ ~sendClosed[s]
    /\ Len(Send[s]) = QueueCap
    /\ \/ pc[d] = "sSend" /\ loc[d].target = s
       \/ pc[d] \in {"jNotify", "rNotify"} /\ loc[d].todo = {s}
    /\ heap[loc[d].room].mu = d
    /\ pc[s] = "rRoom"
    /\ loc[s].disc
    /\ loc[s].room = loc[d].room

\* C14: after a failed write on session s's transport, s's read task ends
\* and no other read task stays blocked: never does a read task wait, with a
\* room locked, for room on the queue of s that only s's stopped drain loop
\* could make, while s's own read task waits for that lock before it can
\* close the queue.
C14_WriteFailureIsLocal ==
    \A s, d \in Clients : ~Stalled(s, d)

\* C15: every member of a Room of the registry has an open queue, and no
\* read task has been ended by a send on a closed queue.
C15_MembersHaveOpenQueues ==
    /\ \A rid \in RoomIds :
          rooms[rid] # NilRoom =>
             \A m \in heap[rooms[rid]].Clients : ~sendClosed[m]
    /\ \A c \in Clients : pc[c] # "panicked"

\* The Room locks task c holds.
HeldBy(c) == {i \in DOMAIN heap : heap[i].mu = c}

\* A step of task c that contains a section under roomsMu.
RegistryStep(c) ==
    \/ JoinGetOrCreate(c)
    \/ RecvSignal(c)
    \/ RecvLeave(c)
    \/ ReadError(c)
    \/ RemDeleteRoom(c)

\* C16: a task holds at most one Room lock, and only inside the loop of
\* handleJoin or removeClientFromRoom or at the send of handleSignaling: not
\* while it waits for a Room lock, not between handlers, and not in a step
\* that takes roomsMu.
C16_LockDiscipline ==
    /\ [](\A c \in Clients :
             /\ Cardinality(HeldBy(c)) <= 1
             /\ pc[c] \notin {"jNotify", "sSend", "rNotify", "panicked"} =>
                   HeldBy(c) = {}
             /\ pc[c] \in {"jNotify", "sSend", "rNotify"} =>
                   HeldBy(c) = {loc[c].room})
    /\ [][\A c \in Clients :
             RegistryStep(c) => HeldBy(c) = {} /\ HeldBy(c)' = {}]_vars

\* C16 witness: one task holds the lock of a room inside its loop while
\* another waits for that lock and a third is in a step under roomsMu.
C16_Witness ==
    \E c, d, e \in Clients :
       /\ HeldBy(c) # {}
       /\ pc[d] \in {"jRoom", "sRoom", "rRoom"}
       /\ loc[d].room \in HeldBy(c)
       /\ pc[e] \in {"jReg", "rReg"}

\* A step of session c's read task inside handleJoin.
JoinStep(c) ==
    /\ op'[c].kind = "join"
    /\ pc'[c] # pc[c] \/ op'[c] # op[c]

\* C17: a join with a roomId never takes the session out of a room it is a
\* member of and enqueues no `user-left`; when it has returned the session is
\* a member of the Room it joined, its roomId is that of the frame, and every
\* other member of that Room has got one `user-joined`.
C17_RejoinKeepsOldRoom ==
    /\ [](\A c \in Clients :
             (op[c].kind = "join" /\ op[c].st = "done" /\ op[c].msg.RoomID # "") =>
                /\ client[c].RoomID = op[c].msg.RoomID
                /\ c \in heap[op[c].room].Clients
                /\ \A m \in op[c].snap : Sent(c, m, "user-joined") = 1
                /\ \A m \in Clients : Sent(c, m, "user-left") = 0)
    /\ [][\A c \in Clients :
             JoinStep(c) =>
                \A i \in DOMAIN heap :
                   c \in heap[i].Clients => c \in heap'[i].Clients]_vars

\* C17 witness: a session that was a member of the room r2 has joined r1,
\* where another session was a member: it is a member of both.
C17_Witness ==
    \E c \in Clients :
       /\ op[c].kind = "join" /\ op[c].st = "done"
       /\ op[c].msg.RoomID = "r1"
       /\ op[c].snap # {}
       /\ client[c].RoomID = "r1"
       /\ rooms["r1"] # NilRoom /\ rooms["r2"] # NilRoom
       /\ c \in heap[rooms["r1"]].Clients
       /\ c \in heap[rooms["r2"]].Clients

\* C18: a session whose read task has ended is a member of no Room of the
\* registry.
C18_GoneFromEveryRoom ==
    \A c \in Clients :
       pc[c] = "done" =>
          \A rid \in RoomIds :
             rooms[rid] # NilRoom => c \notin heap[rooms[rid]].Clients

\* C19: a session that is a member of a room has its id and roomId written
\* (the first statements of handleJoin) only by a task that holds the lock of
\* that room.
C19_IdWrittenUnderRoomLock ==
    [][\A c \in Clients :
          RecvJoin(c) =>
             \A i \in DOMAIN heap :
                c \in heap[i].Clients => heap[i].mu = c]_vars

\* C20: in the direct-write server at most one task is inside
\* Conn.WriteMessage of a connection at any time.
C20_OneWriterPerConnection ==
    \A t \in Clients : Cardinality(writing[t]) <= 1
====
